---- MODULE Spec2Model ----
(***************************************************************************)
(* Model of the crypto_hire_backend canister (src/lib.rs): a durable id    *)
(* counter, a durable table u64 -> Job holding Candid-encoded records of   *)
(* at most 1024 bytes, and the six update/query calls on them.             *)
(*                                                                         *)
(* A String is the sequence of its bytes.  Option<T> is a sequence of      *)
(* length 0 (None) or 1 (Some).  A stored record is the byte sequence      *)
(* that Storable::to_bytes produces; every read decodes it again.          *)
(*                                                                         *)
(* Each call runs to completion before the next one starts (one message    *)
(* at a time, no await in any handler), so each call is one action.  A     *)
(* panic inside a call is a trap: the changes of that call are discarded   *)
(* and the caller gets neither Ok nor an Error value (res = "Trap").       *)
(***************************************************************************)
EXTENDS Integers, Sequences, FiniteSets

VARIABLES
    counter,    \* ID_COUNTER: the value held by the durable cell
    storage,    \* STORAGE: job id -> encoded Job (bytes)
    last,       \* the call that ran last: its name, arguments and result
    issued,     \* history: the ids returned by create_job, in call order
    cancelled,  \* history: the ids for which cancel_job returned Ok
    inflight,   \* per caller: the call it issued, split at its table accesses
    base        \* history: the table when the callers were given their turn

vars == <<counter, storage, last, issued, cancelled, inflight, base>>

---------------------------------------------------------------------------
(* Bounds and input domains *)

\* Cap on Load, the size of the history: create_job and apply_to_job, the
\* only calls that grow it, are not issued beyond it.
MaxLoad == 5

Empty == <<>>
NameA == <<65>>
NameB == <<66>>
\* A long name: a record holds it once as applicant and once as accepted
\* applicant next to one short name, not next to two.
NameL == [i \in 1..470 |-> 76]
TitleT == <<69, 110, 103>>
\* A title that alone exceeds the record bound.
TitleHuge == [i \in 1..1000 |-> 84]
DescD == <<66, 117, 105, 108, 100, 32, 88>>

Titles == {Empty, TitleT, TitleHuge}
Descriptions == {Empty, DescD}
Names == {Empty, NameA, NameB, NameL}
\* Ids a caller may pass: every issued id and the next, unissued one.
JobIds == 1..(counter + 1)

None == <<>>
Some(x) == <<x>>

---------------------------------------------------------------------------
(* Candid encoding of Job: Encode!(self) / Decode!(bytes, Self) *)

\* Mutant: a smaller max_size
MAX_SIZE_halved == 1024 \div 2

MAX_SIZE == 1024

\* "DIDL", 3 table entries: record of 6 fields (sorted by field hash:
\* id, title, description, created_at, accepted_applicants,
\* applicant_name), opt text, vec text; then 1 argument of type 0.
Header ==
    <<68, 73, 68, 76, 3,
      108, 6,
      219, 183, 1, 120,
      152, 171, 236, 129, 1, 113,
      252, 145, 244, 248, 5, 113,
      170, 172, 217, 208, 6, 120,
      137, 157, 198, 250, 9, 1,
      168, 208, 176, 153, 12, 2,
      110, 113,
      109, 113,
      1, 0>>

RECURSIVE Leb128(_)
Leb128(n) ==
    IF n < 128 THEN <<n>> ELSE <<128 + (n % 128)>> \o Leb128(n \div 128)

RECURSIVE EncU64(_, _)
EncU64(n, k) ==
    IF k = 0 THEN <<>> ELSE <<n % 256>> \o EncU64(n \div 256, k - 1)

EncText(s) == Leb128(Len(s)) \o s

EncOpt(o) == IF Len(o) = 0 THEN <<0>> ELSE <<1>> \o EncText(o[1])

RECURSIVE EncTexts(_)
EncTexts(v) ==
    IF Len(v) = 0 THEN <<>> ELSE EncText(Head(v)) \o EncTexts(Tail(v))

EncVec(v) == Leb128(Len(v)) \o EncTexts(v)

\* Mutant: the two text fields written in declaration order of a record
\* whose description sorts first
to_bytes_swapped(job) ==
    Header \o EncU64(job.id, 8) \o EncText(job.description)
           \o EncText(job.title) \o EncU64(job.created_at, 8)
           \o EncOpt(job.accepted_applicants) \o EncVec(job.applicant_name)

to_bytes(job) ==
    Header \o EncU64(job.id, 8) \o EncText(job.title)
           \o EncText(job.description) \o EncU64(job.created_at, 8)
           \o EncOpt(job.accepted_applicants) \o EncVec(job.applicant_name)

RECURSIVE LebVal(_, _)
LebVal(b, p) ==
    IF b[p] < 128 THEN b[p] ELSE (b[p] - 128) + 128 * LebVal(b, p + 1)

RECURSIVE LebLen(_, _)
LebLen(b, p) == IF b[p] < 128 THEN 1 ELSE 1 + LebLen(b, p + 1)

RECURSIVE DecU64(_, _, _)
DecU64(b, p, k) ==
    IF k = 0 THEN 0 ELSE b[p] + 256 * DecU64(b, p + 1, k - 1)

\* [val, next]: the text at position p and the position after it
DecText(b, p) ==
    LET n == LebVal(b, p)
        k == LebLen(b, p)
    IN  [val |-> SubSeq(b, p + k, p + k + n - 1), next |-> p + k + n]

DecOpt(b, p) ==
    IF b[p] = 0
    THEN [val |-> None, next |-> p + 1]
    ELSE LET t == DecText(b, p + 1) IN [val |-> Some(t.val), next |-> t.next]

RECURSIVE DecTexts(_, _, _)
DecTexts(b, p, n) ==
    IF n = 0 THEN <<>>
    ELSE LET t == DecText(b, p)
         IN  <<t.val>> \o DecTexts(b, t.next, n - 1)

DecVec(b, p) == DecTexts(b, p + LebLen(b, p), LebVal(b, p))

from_bytes(b) ==
    LET p0 == Len(Header) + 1
        title == DecText(b, p0 + 8)
        description == DecText(b, title.next)
        accepted == DecOpt(b, description.next + 8)
    IN  [id |-> DecU64(b, p0, 8),
         title |-> title.val,
         description |-> description.val,
         created_at |-> DecU64(b, description.next, 8),
         applicant_name |-> DecVec(b, accepted.next),
         accepted_applicants |-> accepted.val]

---------------------------------------------------------------------------
(* StableBTreeMap<u64, Job> *)

\* Mutant: Bound::Unbounded, nothing is checked
FitsAlways(job) == TRUE

\* insert() encodes the value with the bound checked and panics beyond it
Fits(job) == Len(to_bytes(job)) <= MAX_SIZE

\* Mutant: get(..).unwrap_or_default() (Job derives Default)
GetOrDefault(st, id) ==
    IF id \in DOMAIN st THEN Some(from_bytes(st[id]))
    ELSE Some([id |-> 0, title |-> Empty, description |-> Empty,
               created_at |-> 0, applicant_name |-> <<>>,
               accepted_applicants |-> None])

Get(st, id) == IF id \in DOMAIN st THEN Some(from_bytes(st[id])) ELSE None

\* Mutant: the table is replaced by the one record written
InsertAlone(st, id, job) == [k \in {id} |-> to_bytes(job)]

\* Mutant: the key is the number of records, as for a push onto a list
InsertAtLen(st, id, job) ==
    LET key == Cardinality(DOMAIN st) + 1
    IN  [k \in DOMAIN st \cup {key} |->
            IF k = key THEN to_bytes(job) ELSE st[k]]

Insert(st, id, job) ==
    [k \in DOMAIN st \cup {id} |-> IF k = id THEN to_bytes(job) ELSE st[k]]

\* Mutant: the key is looked up, not removed
RemoveNothing(st, id) == st

Remove(st, id) == [k \in DOMAIN st \ {id} |-> st[k]]

---------------------------------------------------------------------------
(* Helpers of the handlers *)

\* Mutant: the emptiness test always passes the string
is_empty_never(s) == FALSE

is_empty(s) == Len(s) = 0

\* Mutant: the membership test is skipped
ContainsAlways(v, x) == TRUE

RECURSIVE Contains(_, _)
Contains(v, x) ==
    IF Len(v) = 0 THEN FALSE ELSE Head(v) = x \/ Contains(Tail(v), x)

\* Mutant: only the first occurrence is removed (position + remove)
RECURSIVE RetainFirst(_, _)
RetainFirst(v, x) ==
    IF Len(v) = 0 THEN <<>>
    ELSE IF Head(v) = x THEN Tail(v)
         ELSE <<Head(v)>> \o RetainFirst(Tail(v), x)

\* Vec::retain(|name| name != x)
RECURSIVE Retain(_, _)
Retain(v, x) ==
    IF Len(v) = 0 THEN <<>>
    ELSE IF Head(v) /= x THEN <<Head(v)>> \o Retain(Tail(v), x)
         ELSE Retain(Tail(v), x)

\* Mutant: a name already in the list is not pushed again
PushUnique(v, x) ==
    IF \E i \in 1..Len(v) : v[i] = x THEN v ELSE Append(v, x)

Push(v, x) == Append(v, x)

RECURSIVE SumLens(_, _)
SumLens(st, ids) ==
    IF ids = {} THEN 0
    ELSE LET i == CHOOSE x \in ids : TRUE
         IN  Len(from_bytes(st[i]).applicant_name) + SumLens(st, ids \ {i})

\* Every record created weighs 2, every stored applicant name 1.
Load == 2 * counter + SumLens(storage, DOMAIN storage)

Call(op, job_id, title, description, name, res, job) ==
    [op |-> op, job_id |-> job_id, title |-> title,
     description |-> description, name |-> name, res |-> res, job |-> job]

---------------------------------------------------------------------------
\* ic_cdk::api::time(): a logical clock, here one tick per record created
time == 300 + counter

Init ==
    /\ counter = 0
    /\ storage = <<>>
    /\ last = Call("init", 0, Empty, Empty, Empty, "Ok", None)
    /\ issued = <<>>
    /\ cancelled = {}
    /\ inflight = <<>>
    /\ base = <<>>

\* Mutant: && for ||
invalid_payload_both(title, description) ==
    is_empty(title) /\ is_empty(description)

\* line 84: the payload check
invalid_payload(title, description) ==
    is_empty(title) \/ is_empty(description)

\* Mutant: the + 1 is forgotten
new_id_no_increment == counter

\* Mutant: the id is taken from the number of stored records
new_id_from_len == Cardinality(DOMAIN storage) + 1

\* lines 91-95: the id the counter hands out
new_id == counter + 1

\* Mutant: the id is allocated before the payload is checked
create_job_allocates_first(title, description) ==
    /\ UNCHANGED cancelled
    /\ IF invalid_payload(title, description)
       THEN /\ counter' = counter + 1
            /\ last' = Call("create_job", 0, title, description, Empty,
                            "InvalidInput", None)
            /\ UNCHANGED <<storage, issued>>
       ELSE LET job == [id |-> counter + 1, title |-> title,
                        description |-> description, created_at |-> time,
                        applicant_name |-> <<>>,
                        accepted_applicants |-> None]
            IN  IF Fits(job)
                THEN /\ counter' = job.id
                     /\ storage' = Insert(storage, job.id, job)
                     /\ issued' = Append(issued, job.id)
                     /\ last' = Call("create_job", 0, title, description,
                                     Empty, "Ok", Some(job))
                ELSE /\ last' = Call("create_job", 0, title, description,
                                     Empty, "Trap", None)
                     /\ UNCHANGED <<counter, storage, issued>>

create_job(title, description) ==
    /\ UNCHANGED cancelled
    /\ IF invalid_payload(title, description)
       THEN /\ last' = Call("create_job", 0, title, description, Empty,
                            "InvalidInput", None)
            /\ UNCHANGED <<counter, storage, issued>>
       ELSE LET id == new_id
                job == [id |-> id, title |-> title,
                        description |-> description, created_at |-> time,
                        applicant_name |-> <<>>,
                        accepted_applicants |-> None]
            IN  IF Fits(job)
                THEN /\ counter' = id
                     /\ storage' = Insert(storage, job.id, job)
                     /\ issued' = Append(issued, id)
                     /\ last' = Call("create_job", 0, title, description,
                                     Empty, "Ok", Some(job))
                ELSE /\ last' = Call("create_job", 0, title, description,
                                     Empty, "Trap", None)
                     /\ UNCHANGED <<counter, storage, issued>>

\* Mutant: the write-back stamps the record with the current time
applied_restamps(job, applicant_name) ==
    [job EXCEPT !.applicant_name = Push(job.applicant_name, applicant_name),
                !.created_at = time]

\* lines 128-129: the clone with the name pushed
applied(job, applicant_name) ==
    [job EXCEPT !.applicant_name = Push(job.applicant_name, applicant_name)]

apply_to_job(job_id, applicant_name) ==
    /\ UNCHANGED <<counter, issued, cancelled>>
    /\ IF is_empty(applicant_name)
       THEN /\ last' = Call("apply_to_job", job_id, Empty, Empty,
                            applicant_name, "InvalidInput", None)
            /\ UNCHANGED storage
       ELSE LET job_opt == Get(storage, job_id)
            IN  IF Len(job_opt) = 0
                THEN /\ last' = Call("apply_to_job", job_id, Empty, Empty,
                                     applicant_name, "JobNotFound", None)
                     /\ UNCHANGED storage
                ELSE LET job == applied(job_opt[1], applicant_name)
                     IN  IF Fits(job)
                         THEN /\ storage' = Insert(storage, job.id, job)
                              /\ last' = Call("apply_to_job", job_id, Empty,
                                              Empty, applicant_name, "Ok",
                                              None)
                         ELSE /\ last' = Call("apply_to_job", job_id, Empty,
                                              Empty, applicant_name, "Trap",
                                              None)
                              /\ UNCHANGED storage

\* Mutant: withdrawing the accepted name also clears the acceptance
withdrawn_clears(job, applicant_name) ==
    [job EXCEPT !.applicant_name = Retain(job.applicant_name, applicant_name),
                !.accepted_applicants =
                    IF job.accepted_applicants = Some(applicant_name)
                    THEN None ELSE job.accepted_applicants]

\* lines 158-159: the clone with every occurrence of the name dropped
withdrawn(job, applicant_name) ==
    [job EXCEPT !.applicant_name = Retain(job.applicant_name, applicant_name)]

withdraw_application(job_id, applicant_name) ==
    /\ UNCHANGED <<counter, issued, cancelled>>
    /\ IF is_empty(applicant_name)
       THEN /\ last' = Call("withdraw_application", job_id, Empty, Empty,
                            applicant_name, "InvalidInput", None)
            /\ UNCHANGED storage
       ELSE LET job_opt == Get(storage, job_id)
            IN  IF Len(job_opt) = 0
                THEN /\ last' = Call("withdraw_application", job_id, Empty,
                                     Empty, applicant_name, "JobNotFound",
                                     None)
                     /\ UNCHANGED storage
                ELSE LET job == withdrawn(job_opt[1], applicant_name)
                     IN  IF Fits(job)
                         THEN /\ storage' = Insert(storage, job.id, job)
                              /\ last' = Call("withdraw_application", job_id,
                                              Empty, Empty, applicant_name,
                                              "Ok", None)
                         ELSE /\ last' = Call("withdraw_application", job_id,
                                              Empty, Empty, applicant_name,
                                              "Trap", None)
                              /\ UNCHANGED storage

cancel_job(job_id) ==
    /\ UNCHANGED <<counter, issued>>
    /\ IF Len(Get(storage, job_id)) /= 0
       THEN /\ storage' = Remove(storage, job_id)
            /\ cancelled' = cancelled \cup {job_id}
            /\ last' = Call("cancel_job", job_id, Empty, Empty, Empty, "Ok",
                            None)
       ELSE /\ last' = Call("cancel_job", job_id, Empty, Empty, Empty,
                            "JobNotFound", None)
            /\ UNCHANGED <<storage, cancelled>>

\* Mutant: the first applicant is accepted, whoever was named
accepted_first(job, applicant_name) ==
    [job EXCEPT !.accepted_applicants = Some(job.applicant_name[1])]

\* line 203: the clone with the acceptance written
accepted(job, applicant_name) ==
    [job EXCEPT !.accepted_applicants = Some(applicant_name)]

accept_job(job_id, applicant_name) ==
    /\ UNCHANGED <<counter, issued, cancelled>>
    /\ IF is_empty(applicant_name)
       THEN /\ last' = Call("accept_job", job_id, Empty, Empty,
                            applicant_name, "InvalidInput", None)
            /\ UNCHANGED storage
       ELSE LET job_opt == Get(storage, job_id)
            IN  IF Len(job_opt) = 0
                THEN /\ last' = Call("accept_job", job_id, Empty, Empty,
                                     applicant_name, "JobNotFound", None)
                     /\ UNCHANGED storage
                ELSE IF Contains(job_opt[1].applicant_name, applicant_name)
                     THEN LET job == accepted(job_opt[1], applicant_name)
                          IN  IF Fits(job)
                              THEN /\ storage' = Insert(storage, job.id, job)
                                   /\ last' = Call("accept_job", job_id,
                                                   Empty, Empty,
                                                   applicant_name, "Ok", None)
                              ELSE /\ last' = Call("accept_job", job_id,
                                                   Empty, Empty,
                                                   applicant_name, "Trap",
                                                   None)
                                   /\ UNCHANGED storage
                     ELSE /\ last' = Call("accept_job", job_id, Empty, Empty,
                                          applicant_name, "InvalidInput",
                                          None)
                          /\ UNCHANGED storage

fetch_job(job_id) ==
    /\ UNCHANGED <<counter, storage, issued, cancelled>>
    /\ LET job_opt == Get(storage, job_id)
       IN  IF Len(job_opt) /= 0
           THEN last' = Call("fetch_job", job_id, Empty, Empty, Empty, "Ok",
                             job_opt)
           ELSE last' = Call("fetch_job", job_id, Empty, Empty, Empty,
                             "JobNotFound", None)

Next ==
    \/ /\ Load < MaxLoad
       /\ \E title \in Titles, description \in Descriptions :
             create_job(title, description)
       /\ UNCHANGED <<inflight, base>>
    \/ /\ Load < MaxLoad
       /\ \E job_id \in JobIds, applicant_name \in Names :
             apply_to_job(job_id, applicant_name)
       /\ UNCHANGED <<inflight, base>>
    \/ /\ \E job_id \in JobIds, applicant_name \in Names :
             withdraw_application(job_id, applicant_name)
       /\ UNCHANGED <<inflight, base>>
    \/ /\ \E job_id \in JobIds : cancel_job(job_id)
       /\ UNCHANGED <<inflight, base>>
    \/ /\ \E job_id \in JobIds, applicant_name \in Names :
             accept_job(job_id, applicant_name)
       /\ UNCHANGED <<inflight, base>>
    \/ /\ \E job_id \in JobIds : fetch_job(job_id)
       /\ UNCHANGED <<inflight, base>>

Spec == Init /\ [][Next]_vars

---------------------------------------------------------------------------
(* Several callers on one job.  A handler is split where it accesses the   *)
(* table: Begin is the check of the name and the get(), Finish the change  *)
(* of the clone and the insert().  The handlers are synchronous functions  *)
(* (no await between get and insert) and the canister runs one message at  *)
(* a time, so no other call runs between the Begin and the Finish of one.  *)

MaxCallers == 2
Callers == 1..MaxCallers
ConcOps == {"apply_to_job", "withdraw_application", "accept_job"}
ConcNames == {NameA, NameB}

Idle ==
    [pc |-> "idle", op |-> "none", job_id |-> 0, name |-> Empty,
     job |-> None, res |-> "none"]

\* The table after create_job, or after create_job and apply_to_job.
InitConc ==
    /\ counter = 1
    /\ issued = <<1>>
    /\ cancelled = {}
    /\ \E l \in {<<>>, <<NameA>>} :
          LET job == [id |-> 1, title |-> TitleT, description |-> DescD,
                      created_at |-> 300, applicant_name |-> l,
                      accepted_applicants |-> None]
          IN  /\ storage = Insert(<<>>, 1, job)
              /\ base = storage
              /\ last = IF l = <<>>
                        THEN Call("create_job", 0, TitleT, DescD, Empty,
                                  "Ok", Some(job))
                        ELSE Call("apply_to_job", 1, Empty, Empty, NameA,
                                  "Ok", None)
    /\ inflight = [c \in Callers |-> Idle]

\* Mutant: a handler that awaits between get and insert lets others run
may_run_any(c) == TRUE

\* a message runs only while no other message is between its get and insert
may_run(c) == \A d \in Callers \ {c} : inflight[d].pc /= "loaded"

\* lines 116-126, 148-156, 191-199: the name check and the get()
Begin(c, op, job_id, applicant_name) ==
    /\ inflight[c].pc = "idle"
    /\ may_run(c)
    /\ UNCHANGED <<counter, storage, last, issued, cancelled, base>>
    /\ IF is_empty(applicant_name)
       THEN inflight' = [inflight EXCEPT ![c] =
                [pc |-> "done", op |-> op, job_id |-> job_id,
                 name |-> applicant_name, job |-> None,
                 res |-> "InvalidInput"]]
       ELSE LET job_opt == Get(storage, job_id)
            IN  inflight' = [inflight EXCEPT ![c] =
                    [pc |-> IF Len(job_opt) = 0 THEN "done" ELSE "loaded",
                     op |-> op, job_id |-> job_id, name |-> applicant_name,
                     job |-> job_opt,
                     res |-> IF Len(job_opt) = 0 THEN "JobNotFound"
                             ELSE "none"]]

\* lines 128-135, 158-165, 201-214: the change of the clone and the insert()
Finish(c) ==
    /\ inflight[c].pc = "loaded"
    /\ may_run(c)
    /\ UNCHANGED <<counter, last, issued, cancelled, base>>
    /\ LET call == inflight[c]
           old == call.job[1]
           refused == call.op = "accept_job"
                        /\ ~Contains(old.applicant_name, call.name)
           job == IF call.op = "apply_to_job" THEN applied(old, call.name)
                  ELSE IF call.op = "withdraw_application"
                       THEN withdrawn(old, call.name)
                       ELSE accepted(old, call.name)
       IN  IF refused
           THEN /\ inflight' = [inflight EXCEPT ![c].pc = "done",
                                                ![c].res = "InvalidInput"]
                /\ UNCHANGED storage
           ELSE IF Fits(job)
                THEN /\ storage' = Insert(storage, job.id, job)
                     /\ inflight' = [inflight EXCEPT ![c].pc = "done",
                                                     ![c].res = "Ok"]
                ELSE /\ inflight' = [inflight EXCEPT ![c].pc = "done",
                                                     ![c].res = "Trap"]
                     /\ UNCHANGED storage

NextConc ==
    \/ \E c \in Callers, op \in ConcOps, job_id \in DOMAIN storage,
          applicant_name \in ConcNames :
          Begin(c, op, job_id, applicant_name)
    \/ \E c \in Callers : Finish(c)

SpecConc == InitConc /\ [][NextConc]_vars

---------------------------------------------------------------------------
(* Vocabulary of the properties *)

JobAt(st, id) == from_bytes(st[id])
ApplicantsOf(st, id) == JobAt(st, id).applicant_name
AcceptedOf(st, id) == JobAt(st, id).accepted_applicants
Occurs(v, x) == \E i \in 1..Len(v) : v[i] = x
Without(v, x) == SelectSeq(v, LAMBDA y : y /= x)
IssuedIds == {issued[i] : i \in 1..Len(issued)}
NameCalls == {"apply_to_job", "withdraw_application", "accept_job"}
\* the record a call would write back, and whether insert() takes it
WithApplicant(job, name) ==
    [job EXCEPT !.applicant_name = Append(job.applicant_name, name)]
WithAcceptance(job, name) == [job EXCEPT !.accepted_applicants = <<name>>]
WithinBound(job) == Len(to_bytes(job)) <= 1024

---------------------------------------------------------------------------
\* C1: every successful create_job returns an id strictly greater than every
\* id returned before it, also when jobs were cancelled in between; the
\* counter never decreases; no id is issued twice.
C1_IdsStrictlyIncrease ==
    [][/\ counter' >= counter
       /\ (last'.op = "create_job" /\ last'.res = "Ok")
             => /\ \A i \in 1..Len(issued) : issued[i] < last'.job[1].id
                /\ issued' = Append(issued, last'.job[1].id)
       /\ \A i, j \in 1..Len(issued') : i < j => issued'[i] < issued'[j]]_vars

\* a job was created after an earlier job was cancelled
C1_Witness ==
    /\ last.op = "create_job" /\ last.res = "Ok"
    /\ Len(issued) >= 2
    /\ cancelled /= {}

\* C2: create_job with an empty title or an empty description returns
\* InvalidInput, allocates no id and leaves counter and table unchanged.
C2_EmptyFieldRejected ==
    [][(/\ last'.op = "create_job"
        /\ (Len(last'.title) = 0 \/ Len(last'.description) = 0))
          => /\ last'.res = "InvalidInput"
             /\ last'.job = None
             /\ counter' = counter
             /\ storage' = storage
             /\ issued' = issued]_vars

\* rejected with exactly one of the two fields empty, in a state with records
C2_Witness ==
    /\ last.op = "create_job" /\ last.res = "InvalidInput"
    /\ Len(last.title) = 0 /\ Len(last.description) /= 0
    /\ DOMAIN storage /= {}

\* C3: fetch_job(J.id) issued right after the create_job that returned J
\* returns a Job equal to J in every field, with no applicants and no
\* accepted applicant.
C3_FetchAfterCreate ==
    [][(/\ last.op = "create_job" /\ last.res = "Ok"
        /\ last'.op = "fetch_job"
        /\ last'.job_id = last.job[1].id)
          => /\ last'.res = "Ok"
             /\ last'.job = last.job
             /\ last'.job[1].applicant_name = <<>>
             /\ last'.job[1].accepted_applicants = None]_vars

\* the newest record, untouched since its creation, was fetched
C3_Witness ==
    /\ last.op = "fetch_job" /\ last.res = "Ok"
    /\ last.job_id = counter
    /\ last.job[1].title = TitleT /\ last.job[1].description = DescD
    /\ last.job[1].created_at = 300 + (counter - 1)
    /\ last.job[1].applicant_name = <<>>

\* C4 as stated: for an existing job and a non-empty name, accept_job returns
\* InvalidInput and changes nothing when the name is not in the list, and
\* returns Ok with accepted_applicant set to the name when it is.
C4_AsStated ==
    [][(/\ last'.op = "accept_job"
        /\ last'.job_id \in DOMAIN storage
        /\ Len(last'.name) /= 0)
          => IF Occurs(ApplicantsOf(storage, last'.job_id), last'.name)
             THEN /\ last'.res = "Ok"
                  /\ last'.job_id \in DOMAIN storage'
                  /\ AcceptedOf(storage', last'.job_id) = <<last'.name>>
             ELSE /\ last'.res = "InvalidInput"
                  /\ counter' = counter /\ storage' = storage]_vars

\* C4 (amended): for an existing job and a non-empty name, accept_job returns
\* InvalidInput and changes nothing when the name is not in the list; when it
\* is and the record with the acceptance written encodes to at most 1024
\* bytes, it returns Ok and fetch_job then shows that name as accepted; when
\* it is and the record would exceed 1024 bytes the call traps and changes
\* nothing.
C4_AcceptWithinBound ==
    [][/\ (/\ last'.op = "accept_job"
           /\ last'.job_id \in DOMAIN storage
           /\ Len(last'.name) /= 0)
             => LET job == JobAt(storage, last'.job_id)
                IN  IF ~Occurs(job.applicant_name, last'.name)
                    THEN /\ last'.res = "InvalidInput"
                         /\ counter' = counter /\ storage' = storage
                    ELSE IF WithinBound(WithAcceptance(job, last'.name))
                    THEN /\ last'.res = "Ok"
                         /\ last'.job_id \in DOMAIN storage'
                         /\ AcceptedOf(storage', last'.job_id)
                               = <<last'.name>>
                    ELSE /\ last'.res = "Trap"
                         /\ counter' = counter /\ storage' = storage
       /\ (/\ last.op = "accept_job" /\ last.res = "Ok"
           /\ last'.op = "fetch_job" /\ last'.job_id = last.job_id)
             => /\ last'.res = "Ok"
                /\ last'.job[1].accepted_applicants = <<last.name>>]_vars

\* an applicant other than the first was accepted and the record then fetched
C4_Witness ==
    /\ last.op = "fetch_job" /\ last.res = "Ok"
    /\ last.job[1].accepted_applicants /= None
    /\ Len(last.job[1].applicant_name) >= 2
    /\ last.job[1].accepted_applicants[1] = last.job[1].applicant_name[2]
    /\ last.job[1].accepted_applicants[1] /= last.job[1].applicant_name[1]

\* C5: for an existing job and a non-empty name, withdraw_application returns
\* Ok and the new list is the old one without any occurrence of the name, the
\* other entries in their order; a name that does not occur leaves the list
\* as it is.
C5_WithdrawRemovesAll ==
    [][(/\ last'.op = "withdraw_application"
        /\ last'.job_id \in DOMAIN storage
        /\ Len(last'.name) /= 0)
          => LET old == ApplicantsOf(storage, last'.job_id)
             IN  /\ last'.res = "Ok"
                 /\ last'.job_id \in DOMAIN storage'
                 /\ ApplicantsOf(storage', last'.job_id)
                       = Without(old, last'.name)
                 /\ ~Occurs(old, last'.name)
                       => ApplicantsOf(storage', last'.job_id) = old]_vars

\* a withdrawal that left two different names behind
C5_Witness ==
    /\ last.op = "withdraw_application" /\ last.res = "Ok"
    /\ last.job_id \in DOMAIN storage
    /\ LET l == ApplicantsOf(storage, last.job_id)
       IN  Len(l) = 2 /\ l[1] /= l[2]

\* C6 as stated: for an existing job and a non-empty name, apply_to_job
\* returns Ok and the new list is the old list with the name appended.
C6_AsStated ==
    [][(/\ last'.op = "apply_to_job"
        /\ last'.job_id \in DOMAIN storage
        /\ Len(last'.name) /= 0)
          => /\ last'.res = "Ok"
             /\ last'.job_id \in DOMAIN storage'
             /\ ApplicantsOf(storage', last'.job_id)
                   = Append(ApplicantsOf(storage, last'.job_id),
                            last'.name)]_vars

\* C6 (amended): for an existing job and a non-empty name, apply_to_job
\* returns Ok and the new list is the old list with the name appended at the
\* end, duplicates included, provided the record with the name appended
\* encodes to at most 1024 bytes; otherwise the call traps and the list is
\* unchanged.
C6_ApplyWithinBound ==
    [][(/\ last'.op = "apply_to_job"
        /\ last'.job_id \in DOMAIN storage
        /\ Len(last'.name) /= 0)
          => LET job == JobAt(storage, last'.job_id)
             IN  IF WithinBound(WithApplicant(job, last'.name))
                 THEN /\ last'.res = "Ok"
                      /\ last'.job_id \in DOMAIN storage'
                      /\ ApplicantsOf(storage', last'.job_id)
                            = Append(job.applicant_name, last'.name)
                 ELSE /\ last'.res = "Trap"
                      /\ storage' = storage]_vars

\* the same name was applied twice in a row and is stored twice
C6_Witness ==
    /\ last.op = "apply_to_job" /\ last.res = "Ok"
    /\ last.job_id \in DOMAIN storage
    /\ LET l == ApplicantsOf(storage, last.job_id)
       IN  Len(l) >= 2 /\ l[Len(l)] = last.name /\ l[Len(l) - 1] = last.name

\* C7: once cancel_job(id) has returned Ok, the id is absent from the table
\* for good, and fetch_job(id) and cancel_job(id) return JobNotFound,
\* whatever was called in between.
C7_CancelledStaysGone ==
    [][/\ \A id \in cancelled' : id \notin DOMAIN storage'
       /\ \A id \in cancelled :
             (last'.op \in {"fetch_job", "cancel_job"} /\ last'.job_id = id)
                => last'.res = "JobNotFound"]_vars

\* a cancelled id was looked up after a later create_job had succeeded
C7_Witness ==
    /\ last.op = "fetch_job" /\ last.res = "JobNotFound"
    /\ last.job_id \in cancelled
    /\ counter > last.job_id
    /\ DOMAIN storage /= {}

\* C8 as stated: every call that names an id never returned by create_job
\* returns JobNotFound, whatever its other arguments.
C8_AsStated ==
    [][(/\ last'.op \in NameCalls \cup {"cancel_job", "fetch_job"}
        /\ last'.job_id \notin IssuedIds)
          => last'.res = "JobNotFound"]_vars

\* C8 (amended): a call that names an id never returned by create_job returns
\* JobNotFound when it is cancel_job or fetch_job, or apply_to_job,
\* withdraw_application or accept_job with a non-empty name; with an empty
\* name these three return InvalidInput.  The state is unchanged either way.
C8_UnknownIdRejected ==
    [][(/\ last'.op \in NameCalls \cup {"cancel_job", "fetch_job"}
        /\ last'.job_id \notin IssuedIds)
          => /\ IF last'.op \in NameCalls /\ Len(last'.name) = 0
                THEN last'.res = "InvalidInput"
                ELSE last'.res = "JobNotFound"
             /\ counter' = counter /\ storage' = storage]_vars

\* a named applicant was accepted for an id that was never issued
C8_Witness ==
    /\ last.op = "accept_job" /\ last.res = "JobNotFound"
    /\ last.job_id \notin IssuedIds
    /\ last.name = NameA
    /\ DOMAIN storage /= {}

\* C9: an accepted applicant of a stored job was an element of that job's
\* list at an earlier point: a record is created with none, and the accepted
\* name of a record becomes n only in a step that starts with n in its list
\* (a record whose bytes the step leaves alone keeps the name it had).
C9_AcceptedWasApplicant ==
    [][\A id \in DOMAIN storage' :
          \/ id \in DOMAIN storage /\ storage'[id] = storage[id]
          \/ LET new == AcceptedOf(storage', id)
             IN  new /= None
                    => /\ id \in DOMAIN storage
                       /\ \/ AcceptedOf(storage, id) = new
                          \/ Occurs(ApplicantsOf(storage, id), new[1])]_vars

\* the accepted applicant has since been withdrawn from the list
C9_Witness ==
    \E id \in DOMAIN storage :
        /\ AcceptedOf(storage, id) /= None
        /\ ~Occurs(ApplicantsOf(storage, id), AcceptedOf(storage, id)[1])

\* C10: the accepted applicant of a stored job is never reset to absent:
\* apply_to_job and withdraw_application leave it unchanged, it changes only
\* in a successful accept_job on that job, to that call's name, and a record
\* with an accepted applicant leaves the table only by cancel_job on it
\* (a record whose bytes the step leaves alone is not looked into).
C10_AcceptedNeverUnset ==
    [][\A id \in DOMAIN storage :
          \/ id \in DOMAIN storage' /\ storage'[id] = storage[id]
          \/ LET old == AcceptedOf(storage, id)
             IN  /\ (id \in DOMAIN storage' /\ old /= None)
                       => AcceptedOf(storage', id) /= None
                 /\ last'.op \in {"apply_to_job", "withdraw_application"}
                       => /\ id \in DOMAIN storage'
                          /\ AcceptedOf(storage', id) = old
                 /\ (id \in DOMAIN storage'
                        /\ AcceptedOf(storage', id) /= old)
                       => /\ last'.op = "accept_job" /\ last'.res = "Ok"
                          /\ last'.job_id = id
                          /\ AcceptedOf(storage', id) = <<last'.name>>
                 /\ id \notin DOMAIN storage'
                       => /\ last'.op = "cancel_job" /\ last'.res = "Ok"
                          /\ last'.job_id = id]_vars

\* the accepted applicant withdrew and is still the accepted one
C10_Witness ==
    /\ last.op = "withdraw_application" /\ last.res = "Ok"
    /\ last.job_id \in DOMAIN storage
    /\ AcceptedOf(storage, last.job_id) = <<last.name>>

\* C11: the id, title, description and created_at of a stored job are the
\* same after every step that leaves the job in the table: no apply_to_job,
\* withdraw_application, accept_job, nor a call on another job, changes them.
C11_CreationFieldsFixed ==
    [][\A id \in DOMAIN storage \cap DOMAIN storage' :
          \/ storage'[id] = storage[id]
          \/ LET old == JobAt(storage, id)
                 new == JobAt(storage', id)
             IN  /\ new.id = old.id
                 /\ new.title = old.title
                 /\ new.description = old.description
                 /\ new.created_at = old.created_at]_vars

\* a record written back by apply and by accept after the clock moved on
C11_Witness ==
    \E id \in DOMAIN storage :
        LET job == JobAt(storage, id)
        IN  /\ counter > id
            /\ job.id = id /\ job.title = TitleT /\ job.description = DescD
            /\ job.created_at = 300 + (id - 1)
            /\ job.applicant_name /= <<>>
            /\ job.accepted_applicants /= None

\* C12: every key of the table equals the id field of the record stored
\* under it.
C12_KeyIsId == \A k \in DOMAIN storage : JobAt(storage, k).id = k

\* two records, the older one written back after the newer one was created
C12_Witness ==
    /\ last.op = "accept_job" /\ last.res = "Ok"
    /\ last.job_id = 1
    /\ DOMAIN storage = {1, 2}

\* the same call as the one before it
SameCallAgain ==
    /\ last'.op = last.op
    /\ last'.job_id = last.job_id
    /\ last'.name = last.name
    /\ last'.title = last.title
    /\ last'.description = last.description

\* C13: withdraw_application, accept_job, cancel_job and fetch_job issued a
\* second time in a row leave counter and table as the first call left them;
\* a second successful apply_to_job appends the name once more, and a second
\* successful create_job allocates a new id and inserts a second record.
C13_RetryIdempotence ==
    [][SameCallAgain
          => /\ last'.op \in {"withdraw_application", "accept_job",
                              "cancel_job", "fetch_job"}
                   => counter' = counter /\ storage' = storage
             /\ (last'.op = "apply_to_job"
                    /\ last.res = "Ok" /\ last'.res = "Ok")
                   => /\ storage' /= storage
                      /\ ApplicantsOf(storage', last'.job_id)
                            = Append(ApplicantsOf(storage, last'.job_id),
                                     last'.name)
             /\ (last'.op = "create_job"
                    /\ last.res = "Ok" /\ last'.res = "Ok")
                   => /\ counter' = counter + 1
                      /\ last'.job[1].id /= last.job[1].id
                      /\ DOMAIN storage'
                            = DOMAIN storage \cup {last'.job[1].id}
                      /\ last'.job[1].id \notin DOMAIN storage]_vars

\* cancel_job on the id it has just removed
C13_Witness ==
    /\ last.op = "cancel_job" /\ last.res = "JobNotFound"
    /\ last.job_id \in cancelled
    /\ last.job_id = counter
    /\ DOMAIN storage /= {}

\* C15: the counter starts at 0; the k-th successful create_job returns id
\* k; the counter equals the number of successful create_job calls; every
\* key of the table lies between 1 and the counter.
C15_CounterCountsCreates ==
    /\ counter = Len(issued)
    /\ \A k \in 1..Len(issued) : issued[k] = k
    /\ \A k \in DOMAIN storage : 1 <= k /\ k <= counter
    /\ (last.op = "init" => counter = 0)
    /\ (last.op = "create_job" /\ last.res = "Ok")
          => last.job[1].id = counter

\* two ids issued, the first one cancelled, a rejected create_job in between
C15_Witness ==
    /\ issued = <<1, 2>>
    /\ DOMAIN storage = {2}
    /\ last.op = "create_job" /\ last.res = "Trap"

\* C17: apply_to_job, withdraw_application and accept_job with an empty name
\* return InvalidInput whether or not the id exists; they return JobNotFound
\* only for a non-empty name and an absent id.
C17_NameCheckedFirst ==
    [][last'.op \in NameCalls
          => /\ Len(last'.name) = 0 => last'.res = "InvalidInput"
             /\ last'.res = "JobNotFound"
                   <=> (Len(last'.name) /= 0
                          /\ last'.job_id \notin DOMAIN storage)]_vars

\* an empty name for an id that is not in the table
C17_Witness ==
    /\ last.op = "withdraw_application" /\ last.res = "InvalidInput"
    /\ Len(last.name) = 0
    /\ last.job_id \notin DOMAIN storage
    /\ DOMAIN storage /= {}

\* C18: a call that returns InvalidInput or JobNotFound, and every fetch_job,
\* leaves the counter and every record of the table as they were.
C18_ErrorsChangeNothing ==
    [][(last'.res \in {"InvalidInput", "JobNotFound"}
          \/ last'.op = "fetch_job")
          => counter' = counter /\ storage' = storage]_vars

\* accept_job refused for a name that is not an applicant of an existing job
C18_Witness ==
    /\ last.op = "accept_job" /\ last.res = "InvalidInput"
    /\ Len(last.name) /= 0
    /\ last.job_id \in DOMAIN storage
    /\ ApplicantsOf(storage, last.job_id) /= <<>>

\* C19: a successful apply_to_job, withdraw_application, accept_job or
\* cancel_job on id j leaves the counter and the record under every other id
\* unchanged; the set of keys changes only by create_job, which adds exactly
\* the new id, and by cancel_job, which removes exactly j.
C19_OnlyTheNamedRecord ==
    [][/\ (last'.op \in NameCalls \cup {"cancel_job"} /\ last'.res = "Ok")
             => /\ counter' = counter
                /\ \A k \in DOMAIN storage \ {last'.job_id} :
                      k \in DOMAIN storage' /\ storage'[k] = storage[k]
                /\ DOMAIN storage' \subseteq DOMAIN storage
       /\ DOMAIN storage' /= DOMAIN storage
             => \/ /\ last'.op = "create_job" /\ last'.res = "Ok"
                   /\ last'.job[1].id \notin DOMAIN storage
                   /\ DOMAIN storage'
                         = DOMAIN storage \cup {last'.job[1].id}
                \/ /\ last'.op = "cancel_job" /\ last'.res = "Ok"
                   /\ last'.job_id \in DOMAIN storage
                   /\ DOMAIN storage'
                         = DOMAIN storage \ {last'.job_id}]_vars

\* a name applied to one of two stored records
C19_Witness ==
    /\ last.op = "apply_to_job" /\ last.res = "Ok"
    /\ DOMAIN storage = {1, 2}
    /\ ApplicantsOf(storage, last.job_id) = <<last.name>>

\* the write of a call in a step would exceed the bound of a record
OversizeCreate ==
    /\ last'.op = "create_job"
    /\ Len(last'.title) /= 0 /\ Len(last'.description) /= 0
    /\ ~WithinBound([id |-> counter + 1, title |-> last'.title,
                     description |-> last'.description,
                     created_at |-> time, applicant_name |-> <<>>,
                     accepted_applicants |-> <<>>])
OversizeApply ==
    /\ last'.op = "apply_to_job"
    /\ Len(last'.name) /= 0
    /\ last'.job_id \in DOMAIN storage
    /\ ~WithinBound(WithApplicant(JobAt(storage, last'.job_id), last'.name))
OversizeAccept ==
    /\ last'.op = "accept_job"
    /\ Len(last'.name) /= 0
    /\ last'.job_id \in DOMAIN storage
    /\ Occurs(ApplicantsOf(storage, last'.job_id), last'.name)
    /\ ~WithinBound(WithAcceptance(JobAt(storage, last'.job_id), last'.name))

\* C14 as stated: every call returns success, InvalidInput or JobNotFound.
C14_AsStated == last.res \in {"Ok", "InvalidInput", "JobNotFound"}

\* C14 (amended): every call completes with success, InvalidInput or
\* JobNotFound, except that create_job, apply_to_job and accept_job trap,
\* changing nothing, exactly when the record they are to write encodes to
\* more than 1024 bytes.
C14_TotalWithinBound ==
    [][IF OversizeCreate \/ OversizeApply \/ OversizeAccept
       THEN last'.res = "Trap" /\ counter' = counter /\ storage' = storage
       ELSE last'.res \in {"Ok", "InvalidInput", "JobNotFound"}]_vars

\* accept_job trapped on a record that had room for its applicants
C14_Witness ==
    /\ last.op = "accept_job" /\ last.res = "Trap"
    /\ last.name = NameL
    /\ Len(ApplicantsOf(storage, last.job_id)) = 3

\* C20: no record of the table is longer than 1024 bytes; a create_job or
\* apply_to_job whose record would be longer traps, returning neither Ok nor
\* an Error, and leaves the table as it was.
C20_RecordsWithinBound ==
    [][/\ \A k \in DOMAIN storage' : Len(storage'[k]) <= 1024
       /\ (OversizeCreate \/ OversizeApply)
             => /\ last'.res = "Trap"
                /\ last'.job = None
                /\ storage' = storage]_vars

\* apply_to_job trapped on a record of more than 1000 bytes
C20_Witness ==
    /\ last.op = "apply_to_job" /\ last.res = "Trap"
    /\ last.job_id \in DOMAIN storage
    /\ Len(storage[last.job_id]) > 1000

\* one call run alone on table st: the table and the result it leaves
SerialStep(st, call) ==
    LET old == JobAt(st, call.job_id)
        new == IF call.op = "apply_to_job"
               THEN WithApplicant(old, call.name)
               ELSE IF call.op = "withdraw_application"
                    THEN [old EXCEPT !.applicant_name =
                             Without(old.applicant_name, call.name)]
                    ELSE WithAcceptance(old, call.name)
    IN  IF call.op = "accept_job" /\ ~Occurs(old.applicant_name, call.name)
        THEN [st |-> st, res |-> "InvalidInput"]
        ELSE IF WithinBound(new)
             THEN [st |-> [st EXCEPT ![call.job_id] = to_bytes(new)],
                   res |-> "Ok"]
             ELSE [st |-> st, res |-> "Trap"]

\* the calls of the callers in order, run one at a time from table st
RECURSIVE SerialRun(_, _)
SerialRun(st, order) ==
    IF Len(order) = 0 THEN [st |-> st, res |-> {}]
    ELSE LET one == SerialStep(st, inflight[Head(order)])
             rest == SerialRun(one.st, Tail(order))
         IN  [st |-> rest.st,
              res |-> rest.res \cup {<<Head(order), one.res>>}]

Orders ==
    {o \in [Callers -> Callers] : \A c, d \in Callers : c /= d => o[c] /= o[d]}

\* C16: no update is lost: once the calls of all callers on the job have
\* returned, table and results are those of running the calls one at a time
\* in some order; after two successful apply_to_job calls with names a and b,
\* and no call among them withdrawing a or b, the list holds both a and b.
C16_NoLostUpdate ==
    (\A c \in Callers : inflight[c].pc = "done")
       => /\ \E o \in Orders :
                LET run == SerialRun(base, o)
                IN  /\ run.st = storage
                    /\ run.res = {<<c, inflight[c].res>> : c \in Callers}
          /\ \A c, d \in Callers :
                (/\ c /= d
                 /\ inflight[c].op = "apply_to_job" /\ inflight[c].res = "Ok"
                 /\ inflight[d].op = "apply_to_job" /\ inflight[d].res = "Ok"
                 /\ inflight[c].job_id = inflight[d].job_id
                 /\ \A e \in Callers :
                       inflight[e].op = "withdraw_application"
                          => inflight[e].name
                                \notin {inflight[c].name, inflight[d].name})
                   => /\ Occurs(ApplicantsOf(storage, inflight[c].job_id),
                                inflight[c].name)
                      /\ Occurs(ApplicantsOf(storage, inflight[c].job_id),
                                inflight[d].name)

\* two callers applied two different names to the job and both returned Ok
C16_Witness ==
    /\ DOMAIN inflight /= {}
    /\ \A c \in Callers : inflight[c].pc = "done"
    /\ \E c, d \in Callers :
          /\ inflight[c].op = "apply_to_job" /\ inflight[c].res = "Ok"
          /\ inflight[d].op = "apply_to_job" /\ inflight[d].res = "Ok"
          /\ inflight[c].name = NameA /\ inflight[d].name = NameB
          /\ Occurs(ApplicantsOf(storage, 1), NameA)
          /\ Occurs(ApplicantsOf(storage, 1), NameB)
====
